---- MODULE Spec2Model ----
(***************************************************************************)
(* Model of gopm's "get" command (cmd/get.go): the recursive walk          *)
(* downloadPackages, the per-node downloader downloadPackage, the run      *)
(* summary getPackages and the entry points runGet / getByGopmfile /       *)
(* getByPaths.  The recursion of downloadPackages is an explicit stack of  *)
(* frames; one action is one step of the loop body of one frame.           *)
(***************************************************************************)
EXTENDS Integers, Sequences, FiniteSets, TLC

\* Number of consecutive runs of the command over the same file system.
MaxRuns == 2

(***************************************************************************)
(* doc.RevisionType values.                                                *)
(***************************************************************************)
BRANCH == "branch"
TAG == "tag"
COMMIT == "commit"

(***************************************************************************)
(* Import paths are sequences of path elements ("github.com/u/a" is        *)
(* <<"github.com", "u", "a">>).                                            *)
(***************************************************************************)
PkgA == <<"github.com", "u", "a">>
PkgASub == <<"github.com", "u", "a", "sub">>
PkgB == <<"github.com", "u", "b">>
PkgC == <<"github.com", "u", "c">>
PkgT == <<"github.com", "u", "t">>
PkgTX == <<"github.com", "u", "t", "x">>
PseudoC == <<"C">>
StdFmt == <<"fmt">>
MyApp == <<"myapp">>
MyAppModels == <<"myapp", "models">>
CurDir == <<".">>
ShortB == <<"b">>

IsPrefix(s, t) == Len(s) <= Len(t) /\ SubSeq(t, 1, Len(s)) = s

\* doc.GetRootPath: the repository root of an import path.
GetRootPath(p) ==
    IF Len(p) >= 3 /\ p[1] = "github.com" THEN SubSeq(p, 1, 3) ELSE p

\* doc.IsValidRemotePath: at least one "/" and a known host.
IsValidRemotePath(p) == Len(p) > 1 /\ p[1] = "github.com"

\* isSubpackage(rootPath, target): rootPath equals target or lies below it.
isSubpackage(rootPath, target) == IsPrefix(target, rootPath)

\* validPkgInfo: "kind:value" split at the colon, here the pair <<kind, value>>.
validPkgInfo(info) ==
    IF info[1] = "tag" THEN <<TAG, info[2]>>
    ELSE IF info[1] = "commit" THEN <<COMMIT, info[2]>>
    ELSE <<BRANCH, info[2]>>

\* setting.GetPkgFullPath: the name registry; a name it does not know is returned as is.
GetPkgFullPath(p) == IF p = ShortB THEN PkgB ELSE p

\* goconfig MustValue on the "deps" section: the empty string when the key is absent.
MustValue(gf, name) == IF name \in DOMAIN gf THEN gf[name] ELSE <<>>

(***************************************************************************)
(* doc.Node                                                                *)
(***************************************************************************)
NewNode(name, tp, val, isGetDeps) ==
    [ImportPath |-> name, RootPath |-> GetRootPath(name), Type |-> tp,
     Value |-> val, IsGetDeps |-> isGetDeps, IsGetDepsOnly |-> FALSE,
     Revision |-> ""]

\* Shared-cache location: derived from rootPath and version value.
InstallPath(n) == <<n.RootPath, n.Value>>
\* Workspace location: derived from rootPath.
InstallGopath(n) == n.RootPath

IsFixed(n) == n.Type \in {TAG, COMMIT} \/ n.Value # ""
IsEmptyVal(n) == n.Type = BRANCH /\ n.Value = ""

NoDeps == [x \in {} |-> <<>>]
NoImports == [x \in {} |-> <<>>]

(***************************************************************************)
(* The worlds the command runs in: what each package imports, which        *)
(* packages carry a gopmfile, and how the command is invoked (arguments,   *)
(* or the project's own gopmfile when there are none).                     *)
(***************************************************************************)
\* manifest {a: "", b: "tag:v2"}; a imports nothing; b imports c
WorldManifest ==
    [args |-> <<>>, target |-> PkgT, projImports |-> <<PkgA, PkgB>>,
     projDeps |-> (PkgB :> <<"tag", "v2">>),
     imports |-> (PkgB :> <<PkgC>>),
     gopmfiles |-> NoDeps]

\* gopm get github.com/u/a@commit:c1 b
WorldArgs ==
    [args |-> <<<<PkgA, <<"commit", "c1">>>>, <<ShortB, <<>>>>>>, target |-> CurDir,
     projImports |-> <<>>, projDeps |-> NoDeps,
     imports |-> NoImports, gopmfiles |-> NoDeps]

\* c is reachable through a and through b
WorldDiamond ==
    [args |-> <<<<PkgA, <<>>>>, <<PkgB, <<>>>>>>, target |-> CurDir,
     projImports |-> <<>>, projDeps |-> NoDeps,
     imports |-> (PkgA :> <<PkgC>>) @@ (PkgB :> <<PkgC>>),
     gopmfiles |-> NoDeps]

\* a imports b and its own subpackage; b imports a and itself
WorldCycle ==
    [args |-> <<<<PkgA, <<>>>>>>, target |-> CurDir,
     projImports |-> <<>>, projDeps |-> NoDeps,
     imports |-> (PkgA :> <<PkgB, PkgASub>>) @@ (PkgB :> <<PkgA, PkgB>>),
     gopmfiles |-> NoDeps]

\* a imports cgo's "C", the standard library, the project itself, and b;
\* a's gopmfile pins b to tag v1
WorldMixed ==
    [args |-> <<>>, target |-> PkgT, projImports |-> <<PkgA>>,
     projDeps |-> NoDeps,
     imports |-> (PkgA :> <<PseudoC, StdFmt, PkgTX, PkgB>>),
     gopmfiles |-> (PkgA :> (PkgB :> <<"tag", "v1">>))]

\* gopm get a@tag:v1 a
WorldTwoVersions ==
    [args |-> <<<<PkgA, <<"tag", "v1">>>>, <<PkgA, <<>>>>>>, target |-> CurDir,
     projImports |-> <<>>, projDeps |-> NoDeps,
     imports |-> NoImports, gopmfiles |-> NoDeps]

\* a project outside any remote host: target "myapp", a imports myapp/models
WorldLocalTarget ==
    [args |-> <<>>, target |-> MyApp, projImports |-> <<PkgA>>,
     projDeps |-> NoDeps,
     imports |-> (PkgA :> <<MyAppModels, PkgB>>),
     gopmfiles |-> NoDeps]

Worlds ==
    {WorldManifest, WorldArgs, WorldDiamond, WorldCycle, WorldMixed,
     WorldTwoVersions, WorldLocalTarget}

\* The file system and the saved record the first run finds.
NoRecord == [x \in {} |-> ""]
Disks ==
    {[installed |-> {}, record |-> NoRecord, vcs |-> {}],
     [installed |-> {}, record |-> (PkgA :> "r1"), vcs |-> {}],
     [installed |-> {<<PkgA, "">>}, record |-> (PkgA :> "r1"), vcs |-> {PkgA}],
     [installed |-> {<<PkgA, "v1">>, <<PkgB, "">>, <<PkgB, "v2">>},
      record |-> (PkgB :> "r1"), vcs |-> {}],
     [installed |-> {<<PkgA, "c1">>, <<PkgB, "v1">>, <<PkgC, "">>},
      record |-> (PkgC :> "r1"), vcs |-> {PkgB}],
     [installed |-> {<<PkgB, "v2">>}, record |-> NoRecord, vcs |-> {PkgB}]}

\* The revision a fetch of the latest branch resolves to.
LatestRevision == "r2"

VARIABLES
    world,          \* the import graph and the invocation
    ctx,            \* cli.Context: the flags
    installed,      \* install paths present in the shared cache
    gopathVcs,      \* rootPaths with VCS metadata at the workspace location
    gopathPkgs,     \* rootPaths copied to the workspace
    LocalNodes,     \* setting.LocalNodes, in memory
    savedNodes,     \* the Local Record on disk
    downloadCache,
    skipCache,
    downloadCount,
    failConut,
    stack,          \* the frames of downloadPackages
    pc,
    exitCode,
    run,
    events,         \* what the current run did, in order
    prev            \* the disk state the current run started from and the previous run's events

vars ==
    <<world, ctx, installed, gopathVcs, gopathPkgs, LocalNodes, savedNodes,
      downloadCache, skipCache, downloadCount, failConut, stack, pc, exitCode,
      run, events, prev>>

Flags == {"update", "local", "gopath", "remote", "download", "strict"}

Bool(name) == ctx[name]
Workspace == Bool("gopath") \/ Bool("local")

NoNode == NewNode(<<>>, BRANCH, "", FALSE)
Ev(op, n, arg) == [op |-> op, n |-> n, arg |-> arg]

Init ==
    /\ world \in Worlds
    /\ ctx \in [Flags -> BOOLEAN]
    /\ \E d \in Disks :
        /\ installed = d.installed
        /\ gopathVcs = d.vcs
        /\ savedNodes = d.record
        /\ LocalNodes = d.record
        /\ prev = [installed |-> d.installed, record |-> d.record, events |-> <<>>]
    /\ gopathPkgs = {}
    /\ downloadCache = {}
    /\ skipCache = {}
    /\ downloadCount = 0
    /\ failConut = 0
    /\ stack = <<>>
    /\ pc = "runGet"
    /\ exitCode = -1
    /\ run = 1
    /\ events = <<>>

(***************************************************************************)
(* Helpers over the state                                                  *)
(***************************************************************************)
IsExist(n) == InstallPath(n) \in installed
HasVcs(n) == InstallGopath(n) \in gopathVcs
\* doc.GetVcsName(n.InstallGopath): non-empty iff VCS metadata is found there.
GetVcsName(n) == IF InstallGopath(n) \in gopathVcs THEN "git" ELSE ""

\* setting.LocalNodes.MustValue(rootPath, "value") and SetValue(rootPath, "value", v)
RecordValue(rec, rootPath) == IF rootPath \in DOMAIN rec THEN rec[rootPath] ELSE ""
SetValue(rec, rootPath, v) ==
    [x \in (DOMAIN rec) \cup {rootPath} |-> IF x = rootPath THEN v ELSE rec[x]]

\* doc.GetImports: the raw import names found in the checkout of n's package.
GetImports(n) ==
    IF n.RootPath \in DOMAIN world.imports THEN world.imports[n.RootPath] ELSE <<>>

\* com.IsFile(path.Join(n.InstallPath, setting.GOPMFILE))
HasGopmfile(n) == IsExist(n) /\ n.RootPath \in DOMAIN world.gopmfiles
loadGopmfile(n) == world.gopmfiles[n.RootPath]

NewFrame(nodes) ==
    [nodes |-> nodes, i |-> 1, phase |-> "check", n |-> NoNode, nod |-> FALSE,
     imports |-> <<>>, j |-> 1]

Top == stack[Len(stack)]
SetTop(f) == [stack EXCEPT ![Len(stack)] = f]
Cur == Top.nodes[Top.i]
\* "continue": on to the next node of the list
Continue == SetTop([Top EXCEPT !.i = @ + 1, !.phase = "check"])

AtCandidate ==
    /\ pc = "walk"
    /\ stack # <<>>
    /\ Top.phase = "check"
    /\ Top.i <= Len(Top.nodes)

(***************************************************************************)
(* runGet, getByGopmfile, getByPaths                                       *)
(***************************************************************************)
hasConflictMissingCase ==
    \/ Bool("local") /\ Bool("gopath")
    \/ Bool("local") /\ Bool("remote")

hasConflict ==
    \/ Bool("local") /\ Bool("gopath")
    \/ Bool("local") /\ Bool("remote")
    \/ Bool("gopath") /\ Bool("remote")

\* log.Help prints the guidance and ends the process with status 2.
Help ==
    /\ pc' = "exit"
    /\ exitCode' = 2
    /\ events' = Append(events, Ev("help", NoNode, ""))
    /\ UNCHANGED <<world, ctx, installed, gopathVcs, gopathPkgs, LocalNodes,
                   savedNodes, downloadCache, skipCache, downloadCount,
                   failConut, stack, run, prev>>

\* The node of one dependency of the project's gopmfile.
GopmfileNode(name) ==
    LET root == GetRootPath(name)
        base == NewNode(root, BRANCH, "", ~Bool("download"))
        v == MustValue(world.projDeps, root)
    IN  IF v # <<>>
        THEN [base EXCEPT !.Type = validPkgInfo(v)[1], !.Value = validPkgInfo(v)[2]]
        ELSE base

\* The node of one command-line argument "path" or "path@kind:value".
PathNode(arg) ==
    LET pkgPath == arg[1]
        n0 == IF arg[2] # <<>>
              THEN NewNode(pkgPath, validPkgInfo(arg[2])[1], validPkgInfo(arg[2])[2],
                           ~Bool("download"))
              ELSE NewNode(pkgPath, BRANCH, "", ~Bool("download"))
        tmpPath == GetPkgFullPath(pkgPath)
    IN  IF Len(pkgPath) = 1 /\ tmpPath # pkgPath
        THEN NewNode(tmpPath, n0.Type, n0.Value, n0.IsGetDeps)
        ELSE n0

\* getPackages begins: the walk over the initial nodes.
StartWalk(nodes) ==
    /\ pc' = "walk"
    /\ stack' = <<NewFrame(nodes)>>
    /\ UNCHANGED <<world, ctx, installed, gopathVcs, gopathPkgs, LocalNodes,
                   savedNodes, downloadCache, skipCache, downloadCount,
                   failConut, exitCode, run, events, prev>>

RunGetConflict ==
    /\ pc = "runGet"
    /\ hasConflict
    /\ Help

RunGetMissingArgs ==
    /\ pc = "runGet"
    /\ ~hasConflict
    /\ Len(world.args) = 0
    /\ Bool("download")
    /\ Help

getByGopmfile ==
    /\ pc = "runGet"
    /\ ~hasConflict
    /\ Len(world.args) = 0
    /\ ~Bool("download")
    /\ StartWalk([k \in 1..Len(world.projImports) |-> GopmfileNode(world.projImports[k])])

getByPaths ==
    /\ pc = "runGet"
    /\ ~hasConflict
    /\ Len(world.args) # 0
    /\ StartWalk([k \in 1..Len(world.args) |-> PathNode(world.args[k])])

\* The target of the walk: the project's import path, or "." for arguments.
Target == world.target

(***************************************************************************)
(* downloadPackages: one candidate node of the current list                *)
(***************************************************************************)
WalkFrame == UNCHANGED <<world, ctx, gopathVcs, savedNodes, pc, exitCode, run, prev>>

InTargetNever(n) == FALSE

\* line 124: the node belongs to the project being resolved
InTarget(n) == isSubpackage(n.RootPath, Target)

\* lines 129-131
MarkGetDepsOnlyNever(n) == n

MarkGetDepsOnly(n) ==
    IF IsFixed(n) /\ IsExist(n) THEN [n EXCEPT !.IsGetDepsOnly = TRUE] ELSE n

SkipNoticeAlways(n, why) == <<Ev("notice", n, why)>>

\* lines 134-137 and 144-147: one notice per rootPath, whichever skip it is
SkipNotice(n, why) ==
    IF n.RootPath \notin skipCache THEN <<Ev("notice", n, why)>> ELSE <<>>

IsDownloadedNever(n) == FALSE

\* line 133
IsDownloaded(n) == n.RootPath \in downloadCache

IsInstalledSkipNever(n) == FALSE

\* lines 141-143: the package is taken as installed and not fetched
IsInstalledSkip(n) == ~Bool("update") /\ IsExist(n)

\* lines 114-115
SkipPseudoC ==
    /\ AtCandidate
    /\ Cur.ImportPath = PseudoC
    /\ stack' = Continue
    /\ events' = Append(events, Ev("skipC", Cur, ""))
    /\ UNCHANGED <<installed, gopathPkgs, LocalNodes, downloadCache, skipCache,
                   downloadCount, failConut>>
    /\ WalkFrame

RejectInvalidUncounted ==
    /\ AtCandidate
    /\ Cur.ImportPath # PseudoC
    /\ ~IsValidRemotePath(Cur.ImportPath)
    /\ stack' = Continue
    /\ events' = Append(events, Ev("reject", Cur, ""))
    /\ UNCHANGED <<installed, gopathPkgs, LocalNodes, downloadCache, skipCache,
                   downloadCount, failConut>>
    /\ WalkFrame

\* lines 116-121
RejectInvalid ==
    /\ AtCandidate
    /\ Cur.ImportPath # PseudoC
    /\ ~IsValidRemotePath(Cur.ImportPath)
    /\ failConut' = failConut + 1
    /\ stack' = Continue
    /\ events' = Append(events, Ev("reject", Cur, ""))
    /\ UNCHANGED <<installed, gopathPkgs, LocalNodes, downloadCache, skipCache,
                   downloadCount>>
    /\ WalkFrame

Valid(n) == n.ImportPath # PseudoC /\ IsValidRemotePath(n.ImportPath)

\* lines 124-126
SkipTarget ==
    /\ AtCandidate
    /\ Valid(Cur)
    /\ InTarget(Cur)
    /\ stack' = Continue
    /\ events' = Append(events, Ev("skipTarget", Cur, ""))
    /\ UNCHANGED <<installed, gopathPkgs, LocalNodes, downloadCache, skipCache,
                   downloadCount, failConut>>
    /\ WalkFrame

\* lines 133-139
SkipDownloaded ==
    /\ AtCandidate
    /\ Valid(Cur)
    /\ ~InTarget(Cur)
    /\ LET n == MarkGetDepsOnly(Cur) IN
        /\ IsDownloaded(n)
        /\ skipCache' = skipCache \cup {n.RootPath}
        /\ events' = events \o SkipNotice(n, "downloaded") \o <<Ev("skipDownloaded", n, "")>>
    /\ stack' = Continue
    /\ UNCHANGED <<installed, gopathPkgs, LocalNodes, downloadCache,
                   downloadCount, failConut>>
    /\ WalkFrame

SkipInstalledCounted ==
    /\ AtCandidate
    /\ Valid(Cur)
    /\ ~InTarget(Cur)
    /\ LET n == MarkGetDepsOnly(Cur) IN
        /\ ~IsDownloaded(n)
        /\ IsInstalledSkip(n)
        /\ skipCache' = skipCache \cup {n.RootPath}
        /\ gopathPkgs' = IF Workspace THEN gopathPkgs \cup {InstallGopath(n)} ELSE gopathPkgs
        /\ events' = events \o SkipNotice(n, "installed")
                        \o <<Ev("skipInstalled", n, "")>>
                        \o (IF Workspace THEN <<Ev("copy", n, "")>> ELSE <<>>)
    /\ downloadCount' = downloadCount + 1
    /\ stack' = Continue
    /\ UNCHANGED <<installed, LocalNodes, downloadCache, failConut>>
    /\ WalkFrame

\* lines 141-153
SkipInstalled ==
    /\ AtCandidate
    /\ Valid(Cur)
    /\ ~InTarget(Cur)
    /\ LET n == MarkGetDepsOnly(Cur) IN
        /\ ~IsDownloaded(n)
        /\ IsInstalledSkip(n)
        /\ skipCache' = skipCache \cup {n.RootPath}
        /\ gopathPkgs' = IF Workspace THEN gopathPkgs \cup {InstallGopath(n)} ELSE gopathPkgs
        /\ events' = events \o SkipNotice(n, "installed")
                        \o <<Ev("skipInstalled", n, "")>>
                        \o (IF Workspace THEN <<Ev("copy", n, "")>> ELSE <<>>)
    /\ stack' = Continue
    /\ UNCHANGED <<installed, LocalNodes, downloadCache, downloadCount, failConut>>
    /\ WalkFrame

(***************************************************************************)
(* downloadPackage, reached from line 159                                  *)
(***************************************************************************)
\* The candidate falls through to line 159.
ToDownload(n) ==
    /\ AtCandidate
    /\ Valid(Cur)
    /\ ~InTarget(Cur)
    /\ n = MarkGetDepsOnly(Cur)
    /\ ~IsDownloaded(n)
    /\ ~IsInstalledSkip(n)

\* line 155: without --update the record of the rootPath is set to "" before the fetch
PlaceholderRecord(n) ==
    IF ~Bool("update") THEN SetValue(LocalNodes, n.RootPath, "") ELSE LocalNodes

PlaceholderEvent(n) ==
    IF ~Bool("update") THEN <<Ev("setRecord", n, "")>> ELSE <<>>

MarkDownloadedNever(n) == downloadCache

\* line 70
MarkDownloaded(n) == downloadCache \cup {n.RootPath}

\* line 78
UseVcs(n) == Bool("update") /\ Workspace /\ GetVcsName(n) # ""

\* lines 87-89: the revision the fetch starts with
PinRevision(n) ==
    IF IsExist(n) THEN [n EXCEPT !.Revision = RecordValue(PlaceholderRecord(n), n.RootPath)]
    ELSE n

\* n.Download on success: the revision of the node after the fetch
Downloaded(n) ==
    IF IsEmptyVal(n) /\ n.Revision = "" THEN [n EXCEPT !.Revision = LatestRevision] ELSE n

ReturnedImportsInverted(n) == IF ~n.IsGetDeps THEN GetImports(n) ELSE <<>>

ReturnedImportsAlways(n) == GetImports(n)

\* lines 102-105
ReturnedImports(n) == IF n.IsGetDeps THEN GetImports(n) ELSE <<>>

DownloadFailedKeepsDir(n, how) ==
    /\ failConut' = failConut + 1
    /\ installed' = installed \cup {InstallPath(n)}
    /\ stack' = SetTop([Top EXCEPT !.phase = "imports", !.n = n, !.nod = FALSE,
                                   !.imports = <<>>, !.j = 1])
    /\ events' = events \o PlaceholderEvent(n)
                    \o <<Ev("download", n, how), Ev("fail", n, how), Ev("rmInstall", n, "")>>

DownloadFailedWithImports(n, how) ==
    /\ failConut' = failConut + 1
    /\ installed' = installed \ {InstallPath(n)}
    /\ stack' = SetTop([Top EXCEPT !.phase = "imports", !.n = n, !.nod = FALSE,
                                   !.imports = GetImports(n), !.j = 1])
    /\ events' = events \o PlaceholderEvent(n)
                    \o <<Ev("download", n, how), Ev("fail", n, how), Ev("rmInstall", n, "")>>

\* lines 94-100: the failure path of downloadPackage, back at line 159
DownloadFailed(n, how) ==
    /\ failConut' = failConut + 1
    /\ installed' = installed \ {InstallPath(n)}
    /\ stack' = SetTop([Top EXCEPT !.phase = "imports", !.n = n, !.nod = FALSE,
                                   !.imports = <<>>, !.j = 1])
    /\ events' = events \o PlaceholderEvent(n)
                    \o <<Ev("download", n, how), Ev("fail", n, how), Ev("rmInstall", n, "")>>

\* lines 102-105: the success path of downloadPackage, back at line 159
DownloadOk(n, after, how, inst) ==
    /\ failConut' = failConut
    /\ installed' = inst
    /\ stack' = SetTop([Top EXCEPT !.phase = "imports", !.n = after, !.nod = TRUE,
                                   !.imports = ReturnedImports(after), !.j = 1])
    /\ events' = events \o PlaceholderEvent(n)
                    \o <<Ev("download", n, how), Ev("ok", after, how)>>

\* lines 78-80: update through the VCS tool found at the workspace location
DownloadByVcs ==
    /\ AtCandidate
    /\ LET n == MarkGetDepsOnly(Cur) IN
        /\ ToDownload(n)
        /\ UseVcs(n)
        /\ LocalNodes' = PlaceholderRecord(n)
        /\ downloadCache' = MarkDownloaded(n)
        /\ \E err \in BOOLEAN :
            IF err THEN DownloadFailed(n, "vcs") ELSE DownloadOk(n, n, "vcs", installed)
        /\ UNCHANGED <<gopathPkgs, skipCache, downloadCount>>
        /\ WalkFrame

\* lines 83-84: only the imports of the existing checkout are read
DownloadDepsOnly ==
    /\ AtCandidate
    /\ LET n == MarkGetDepsOnly(Cur) IN
        /\ ToDownload(n)
        /\ ~UseVcs(n)
        /\ n.IsGetDepsOnly
        /\ LocalNodes' = PlaceholderRecord(n)
        /\ downloadCache' = MarkDownloaded(n)
        /\ DownloadOk(n, n, "depsOnly", installed)
        /\ UNCHANGED <<gopathPkgs, skipCache, downloadCount>>
        /\ WalkFrame

\* lines 86-90: fresh fetch
DownloadFetch ==
    /\ AtCandidate
    /\ LET n == MarkGetDepsOnly(Cur) IN
        /\ ToDownload(n)
        /\ ~UseVcs(n)
        /\ ~n.IsGetDepsOnly
        /\ LocalNodes' = PlaceholderRecord(n)
        /\ downloadCache' = MarkDownloaded(n)
        /\ \E err \in BOOLEAN :
            IF err THEN DownloadFailed(PinRevision(n), "fetch")
            ELSE DownloadOk(PinRevision(n), Downloaded(PinRevision(n)), "fetch",
                            installed \cup {InstallPath(n)})
        /\ UNCHANGED <<gopathPkgs, skipCache, downloadCount>>
        /\ WalkFrame

(***************************************************************************)
(* downloadPackages after line 159: the imports, then the bookkeeping      *)
(***************************************************************************)
AtImports ==
    /\ pc = "walk"
    /\ stack # <<>>
    /\ Top.phase = "imports"

\* lines 172-184: the nodes generated for one import name
ChildNodes(n, imports, name) ==
    [i \in 1..Len(imports) |->
        LET base == NewNode(name, BRANCH, "", ~Bool("download"))
            v == IF HasGopmfile(n) THEN MustValue(loadGopmfile(n), imports[i]) ELSE <<>>
        IN  IF v # <<>>
            THEN [base EXCEPT !.Type = validPkgInfo(v)[1], !.Value = validPkgInfo(v)[2]]
            ELSE base]

\* lines 160-186: one round of the loop over the imports, entering the recursive call
Descend ==
    /\ AtImports
    /\ Top.j <= Len(Top.imports)
    /\ LET name == Top.imports[Top.j]
           nodes == ChildNodes(Top.n, Top.imports, name)
       IN  /\ stack' = Append(SetTop([Top EXCEPT !.j = @ + 1]), NewFrame(nodes))
           /\ events' = events \o
                (IF HasGopmfile(Top.n) THEN <<Ev("gopmfile", Top.n, "")>> ELSE <<>>)
                \o <<Ev("children", Top.n, ""), Ev("child", nodes[1], "")>>
    /\ UNCHANGED <<installed, gopathPkgs, LocalNodes, downloadCache, skipCache,
                   downloadCount, failConut>>
    /\ WalkFrame

\* the recursive call of line 185 returns
Return ==
    /\ pc = "walk"
    /\ Len(stack) > 1
    /\ Top.phase = "check"
    /\ Top.i > Len(Top.nodes)
    /\ stack' = SubSeq(stack, 1, Len(stack) - 1)
    /\ UNCHANGED <<installed, gopathPkgs, LocalNodes, downloadCache, skipCache,
                   downloadCount, failConut, events>>
    /\ WalkFrame

FinishFailedAborts ==
    /\ AtImports
    /\ Top.j > Len(Top.imports)
    /\ ~Top.nod
    /\ stack' = SetTop([Top EXCEPT !.i = Len(Top.nodes) + 1, !.phase = "check"])
    /\ UNCHANGED <<installed, gopathPkgs, LocalNodes, downloadCache, skipCache,
                   downloadCount, failConut, events>>
    /\ WalkFrame

\* lines 188-191
FinishFailed ==
    /\ AtImports
    /\ Top.j > Len(Top.imports)
    /\ ~Top.nod
    /\ stack' = Continue
    /\ UNCHANGED <<installed, gopathPkgs, LocalNodes, downloadCache, skipCache,
                   downloadCount, failConut, events>>
    /\ WalkFrame

\* line 198
SavesRevision(nod) == IsEmptyVal(nod) /\ nod.Revision # ""

CopiesToGopathIgnoresVcs(nod) == Workspace

\* line 204
CopiesToGopath(nod) == Workspace /\ ~HasVcs(nod)

\* lines 193-206
FinishSucceeded ==
    /\ AtImports
    /\ Top.j > Len(Top.imports)
    /\ Top.nod
    /\ LET nod == Top.n IN
        /\ downloadCount' = downloadCount + 1
        /\ LocalNodes' = IF SavesRevision(nod)
                         THEN SetValue(LocalNodes, nod.RootPath, nod.Revision)
                         ELSE LocalNodes
        /\ gopathPkgs' = IF CopiesToGopath(nod)
                         THEN gopathPkgs \cup {InstallGopath(nod)}
                         ELSE gopathPkgs
        /\ events' = events \o <<Ev("succ", nod, "")>>
                        \o (IF SavesRevision(nod)
                            THEN <<Ev("setRecord", nod, nod.Revision)>> ELSE <<>>)
                        \o (IF CopiesToGopath(nod) THEN <<Ev("copy", nod, "")>> ELSE <<>>)
    /\ stack' = Continue
    /\ UNCHANGED <<installed, downloadCache, skipCache, failConut>>
    /\ WalkFrame

(***************************************************************************)
(* getPackages after the walk                                              *)
(***************************************************************************)
WalkDone ==
    /\ pc = "walk"
    /\ Len(stack) = 1
    /\ Top.phase = "check"
    /\ Top.i > Len(Top.nodes)

\* line 212
SaveLocalNodes ==
    /\ WalkDone
    /\ savedNodes' = LocalNodes
    /\ pc' = "saved"
    /\ stack' = <<>>
    /\ events' = Append(events, Ev("save", NoNode, ""))
    /\ UNCHANGED <<world, ctx, installed, gopathVcs, gopathPkgs, LocalNodes,
                   downloadCache, skipCache, downloadCount, failConut, exitCode,
                   run, prev>>

StrictFailureIgnoresStrict == failConut > 0

\* line 215
StrictFailure == Bool("strict") /\ failConut > 0

\* lines 214-218
Exit ==
    /\ pc = "saved"
    /\ exitCode' = IF StrictFailure THEN 2 ELSE 0
    /\ pc' = "exit"
    /\ events' = Append(events, Ev("exit", NoNode, ""))
    /\ UNCHANGED <<world, ctx, installed, gopathVcs, gopathPkgs, LocalNodes,
                   savedNodes, downloadCache, skipCache, downloadCount, failConut,
                   stack, run, prev>>

\* The command is run again, with the same flags and arguments, as a new process.
NextRun ==
    /\ pc = "exit"
    /\ run < MaxRuns
    /\ run' = run + 1
    /\ pc' = "runGet"
    /\ exitCode' = -1
    /\ LocalNodes' = savedNodes
    /\ downloadCache' = {}
    /\ skipCache' = {}
    /\ downloadCount' = 0
    /\ failConut' = 0
    /\ stack' = <<>>
    /\ events' = <<>>
    /\ prev' = [installed |-> installed, record |-> savedNodes, events |-> events]
    /\ UNCHANGED <<world, ctx, installed, gopathVcs, gopathPkgs, savedNodes>>

Next ==
    \/ RunGetConflict
    \/ RunGetMissingArgs
    \/ getByGopmfile
    \/ getByPaths
    \/ SkipPseudoC
    \/ RejectInvalid
    \/ SkipTarget
    \/ SkipDownloaded
    \/ SkipInstalled
    \/ DownloadByVcs
    \/ DownloadDepsOnly
    \/ DownloadFetch
    \/ Descend
    \/ Return
    \/ FinishFailed
    \/ FinishSucceeded
    \/ SaveLocalNodes
    \/ Exit
    \/ NextRun

Spec == Init /\ [][Next]_vars

\* The program is a single thread that runs every call to its end: a step
\* that can be taken is eventually taken.
FairSpec == Spec /\ WF_vars(Next)

(***************************************************************************)
(* Properties                                                              *)
(***************************************************************************)
EvIdx == DOMAIN events
Count(op) == Cardinality({i \in EvIdx : events[i].op = op})
\* the run went through the walk and ended
WalkedToExit == pc = "exit" /\ \E i \in EvIdx : events[i].op = "save"

\* C1: within one run the Downloader (downloadPackage) is invoked at most once
\* per rootPath, whatever the graph, the order of discovery, the versions of
\* the nodes sharing the rootPath and the outcome of the first invocation.
C1_DownloaderAtMostOncePerRoot ==
    \A i, j \in EvIdx :
        (/\ events[i].op = "download"
         /\ events[j].op = "download"
         /\ events[i].n.RootPath = events[j].n.RootPath) => i = j

\* C1 witness: a rootPath whose download failed is discovered again, with
\* another version, and skipped.
C1_Witness ==
    \E i, j \in EvIdx :
        /\ i < j
        /\ events[i].op = "fail"
        /\ events[j].op = "skipDownloaded"
        /\ events[i].n.RootPath = events[j].n.RootPath
        /\ events[i].n.Value # events[j].n.Value

\* The candidate at hand lies in the target.
CurInTarget == AtCandidate /\ isSubpackage(Cur.RootPath, Target)

\* C2 as stated: a step on a candidate whose rootPath equals the target or is
\* a subpackage of it changes nothing: not the visited set, the cache, the
\* workspace, the Local Record, nor either counter.
C2_Original ==
    [][CurInTarget =>
        UNCHANGED <<downloadCache, installed, gopathPkgs, LocalNodes,
                    downloadCount, failConut>>]_vars

\* C2 amended: a candidate in the target is never passed to the Downloader,
\* added to the visited set, copied or recorded, and leaves succeeded
\* unchanged; it leaves failed unchanged too when its import path passes the
\* validity check of step 1, which comes first.
C2_TargetExcluded ==
    [][CurInTarget =>
        /\ UNCHANGED <<downloadCache, installed, gopathPkgs, LocalNodes, downloadCount>>
        /\ (IsValidRemotePath(Cur.ImportPath) => UNCHANGED failConut)]_vars

\* C2 witness: a valid import of the project's own subpackage was skipped
\* below the top level.
C2_Witness ==
    \E i \in EvIdx :
        /\ events[i].op = "skipTarget"
        /\ events[i].n.ImportPath = PkgTX
        /\ Len(stack) > 1

\* C3: when the Downloader fails for node N, failed counts it exactly once,
\* N's install directory is gone, the Downloader's result is null with no
\* imports, N is not counted as succeeded and no child of N is created.
C3_FailedFetch ==
    /\ failConut = Count("reject") + Count("fail")
    /\ downloadCount = Count("succ")
    /\ \A i \in EvIdx : events[i].op = "fail" =>
        /\ InstallPath(events[i].n) \notin installed
        /\ \A j \in EvIdx : events[j].op \in {"succ", "children", "gopmfile"} =>
                events[j].n.RootPath # events[i].n.RootPath
    /\ (pc = "walk" /\ stack # <<>> /\ Top.phase = "imports" /\ ~Top.nod) =>
            Top.imports = <<>>

\* C3 witness: the fetch of an installed package that has imports failed
\* (update mode) and the run went on to its end.
C3_Witness ==
    /\ WalkedToExit
    /\ \E i \in EvIdx :
        /\ events[i].op = "fail"
        /\ InstallPath(events[i].n) \in prev.installed
        /\ GetImports(events[i].n) # <<>>

\* The candidates the walk was given: the initial nodes, and one list of
\* nodes, as long as the parent's import list, for every round of the loop
\* over a fetched parent's imports.
RECURSIVE ChildCandidates(_)
ChildCandidates(k) ==
    IF k = 0 THEN 0
    ELSE ChildCandidates(k - 1) +
         (IF events[k].op = "children" THEN Len(GetImports(events[k].n)) ELSE 0)

InitialCandidates ==
    IF Len(world.args) = 0 THEN Len(world.projImports) ELSE Len(world.args)

OutcomeOps ==
    {"skipC", "reject", "skipTarget", "skipDownloaded", "skipInstalled", "download"}

Outcomes == Cardinality({i \in EvIdx : events[i].op \in OutcomeOps})

\* C4: a rejected or failed node never stops the walk: at the end of the run
\* every candidate of every node list has been processed, and the exit status
\* is 0 unless strict mode is active.
C4_FailureContained ==
    WalkedToExit =>
        /\ Outcomes = InitialCandidates + ChildCandidates(Len(events))
        /\ (~Bool("strict") => exitCode = 0)

\* C4 witness: scenario B: the first argument's fetch fails, the second is
\* resolved, failed = 1, exit status 0.
C4_Witness ==
    /\ WalkedToExit
    /\ world = WorldArgs
    /\ failConut = 1
    /\ exitCode = 0
    /\ \E i, j \in EvIdx :
        /\ i < j
        /\ events[i].op = "fail" /\ events[i].n.RootPath = PkgA
        /\ InstallPath(events[i].n) \notin installed
        /\ events[j].op = "succ" /\ events[j].n.RootPath = PkgB

\* C5: a run that reaches the end of the walk exits with status 2 exactly
\* when strict mode is active and failed > 0, and with 0 otherwise; the Local
\* Record is saved once, after the whole walk and before the exit decision.
C5_ExitPolicy ==
    /\ pc = "walk" => exitCode = -1 /\ savedNodes = prev.record
    /\ pc = "saved" => exitCode = -1 /\ savedNodes = LocalNodes
    /\ WalkedToExit =>
        /\ exitCode = (IF Bool("strict") /\ failConut > 0 THEN 2 ELSE 0)
        /\ savedNodes = LocalNodes
        /\ events[Len(events)].op = "exit"
        /\ events[Len(events) - 1].op = "save"

\* C5 witness: a strict run with a failure saved a changed record and then
\* exited with status 2.
C5_Witness ==
    /\ WalkedToExit
    /\ exitCode = 2
    /\ savedNodes # prev.record

\* The initial nodes of the run.
InitialNodes ==
    IF Len(world.args) = 0
    THEN {GopmfileNode(world.projImports[k]) : k \in 1..Len(world.projImports)}
    ELSE {PathNode(world.args[k]) : k \in 1..Len(world.args)}

Range(q) == {q[k] : k \in 1..Len(q)}
ImportsOfRoot(r) == IF r \in DOMAIN world.imports THEN Range(world.imports[r]) ELSE {}
\* a rootPath the walk has to resolve: valid path, outside the target
Wanted(p) ==
    /\ p # PseudoC
    /\ IsValidRemotePath(p)
    /\ ~isSubpackage(GetRootPath(p), Target)
WantedRoots(paths) == {GetRootPath(p) : p \in {q \in paths : Wanted(q)}}

RECURSIVE ReachableFrom(_, _)
ReachableFrom(S, k) ==
    IF k = 0 THEN S
    ELSE ReachableFrom(S \cup WantedRoots(UNION {ImportsOfRoot(r) : r \in S}), k - 1)

\* every rootPath reachable through import edges from the initial nodes
ReachableRoots ==
    ReachableFrom(WantedRoots({n.ImportPath : n \in InitialNodes}),
                  Cardinality(DOMAIN world.imports))

\* the initial rootPaths and the imports of the nodes the Downloader returned
DiscoveredRoots ==
    WantedRoots({n.ImportPath : n \in InitialNodes})
    \cup WantedRoots(UNION {Range(GetImports(events[i].n)) :
                            i \in {k \in EvIdx : events[k].op = "ok"}})

Fetched(r) == \E i \in EvIdx : events[i].op = "ok" /\ events[i].n.RootPath = r
FoundInstalled(r) ==
    \E i \in EvIdx : events[i].op = "skipInstalled" /\ events[i].n.RootPath = r
RecursiveCleanRun == WalkedToExit /\ ~Bool("download") /\ Count("fail") = 0

\* C6 as stated: with recursion enabled and no fetch failure, at the end of
\* the walk every valid rootPath outside the target that is reachable through
\* import edges from the initial nodes was fetched or found installed, and
\* none was passed to the Downloader twice.
C6_Original ==
    RecursiveCleanRun =>
        /\ \A r \in ReachableRoots : Fetched(r) \/ FoundInstalled(r)
        /\ \A i, j \in EvIdx :
            (/\ events[i].op = "download"
             /\ events[j].op = "download"
             /\ events[i].n.RootPath = events[j].n.RootPath) => i = j

\* C6 amended: with recursion enabled and no fetch failure, at the end of the
\* walk every valid rootPath outside the target that is an initial node or an
\* import of a node the Downloader returned was fetched or found installed,
\* and none was passed to the Downloader twice.
C6_ResolvedOncePerRoot ==
    RecursiveCleanRun =>
        /\ \A r \in DiscoveredRoots : Fetched(r) \/ FoundInstalled(r)
        /\ C1_DownloaderAtMostOncePerRoot

\* C6 witness: a clean recursive run fetched a parent and its import and
\* found another rootPath installed.
C6_Witness ==
    /\ RecursiveCleanRun
    /\ \E r \in DiscoveredRoots : FoundInstalled(r)
    /\ \E i, j \in EvIdx :
        /\ i < j
        /\ events[i].op = "ok" /\ events[j].op = "ok"
        /\ events[j].n.ImportPath \in Range(GetImports(events[i].n))

\* What the gopmfile of parent p says about import name, as kind and value.
DeclaredVersion(p, name) ==
    IF HasGopmfile(p) /\ MustValue(loadGopmfile(p), name) # <<>>
    THEN validPkgInfo(MustValue(loadGopmfile(p), name))
    ELSE <<BRANCH, "">>

\* C7: every child node built for an import name of a fetched node has the
\* kind and value the parent's manifest declares for that name, and is a
\* Branch node with empty value when there is no manifest or no entry.
C7_ChildVersionFromOwnEntry ==
    \A d \in 2..Len(stack) :
        \A k \in 1..Len(stack[d].nodes) :
            LET c == stack[d].nodes[k] IN
            <<c.Type, c.Value>> = DeclaredVersion(stack[d - 1].n, c.ImportPath)

\* C8: a fresh fetch of an unpinned node whose rootPath has a recorded
\* revision starts with the node's revision set to the recorded one.
C8_FetchPinnedToRecord ==
    \A i \in EvIdx :
        (/\ events[i].op = "download"
         /\ events[i].arg = "fetch"
         /\ IsEmptyVal(events[i].n)
         /\ RecordValue(prev.record, events[i].n.RootPath) # "")
        => events[i].n.Revision = RecordValue(prev.record, events[i].n.RootPath)

OutcomesOf(r) == {i \in EvIdx : events[i].op \in OutcomeOps /\ events[i].n.RootPath = r}
MetRoots == {events[i].n.RootPath : i \in {k \in EvIdx : events[k].op \in OutcomeOps}}
\* rootPaths the run met as a node whose install location existed at its start
MetInstalled ==
    {r \in MetRoots : \E i \in OutcomesOf(r) : InstallPath(events[i].n) \in prev.installed}
\* rootPaths the run met only as nodes whose install location existed
MetInstalledOnly ==
    {r \in MetRoots : \A i \in OutcomesOf(r) : InstallPath(events[i].n) \in prev.installed}
FreshFetch(i) == events[i].op = "download" /\ events[i].arg = "fetch"
SecondPlainRun == run = 2 /\ ~Bool("update")

\* C9 as stated: in the second of two runs without the update flag no fresh
\* fetch is made where the install location exists, and at the end the Local
\* Record entry of each rootPath met with an existing install location is
\* what the first run left.
C9_Original ==
    SecondPlainRun =>
        /\ \A i \in EvIdx : FreshFetch(i) => InstallPath(events[i].n) \notin prev.installed
        /\ WalkedToExit =>
            \A r \in MetInstalled : RecordValue(savedNodes, r) = RecordValue(prev.record, r)

\* C9 amended: in the second of two runs without the update flag no fresh
\* fetch is made for a node whose install location exists, and at the end the
\* Local Record entry of each rootPath met only as nodes whose install
\* location exists is what the first run left.
C9_SecondRunKeepsInstalled ==
    SecondPlainRun =>
        /\ \A i \in EvIdx : FreshFetch(i) => InstallPath(events[i].n) \notin prev.installed
        /\ WalkedToExit =>
            \A r \in MetInstalledOnly : RecordValue(savedNodes, r) = RecordValue(prev.record, r)

\* C9 witness: the second run skipped, as installed, a package the first run
\* had fetched and recorded.
C9_Witness ==
    /\ SecondPlainRun
    /\ WalkedToExit
    /\ \E i \in EvIdx, j \in DOMAIN prev.events :
        /\ events[i].op = "skipInstalled"
        /\ prev.events[j].op = "ok"
        /\ prev.events[j].arg = "fetch"
        /\ prev.events[j].n.RootPath = events[i].n.RootPath
        /\ events[i].n.RootPath \in MetInstalledOnly
        /\ RecordValue(savedNodes, events[i].n.RootPath) = LatestRevision

NoticesOf(r) == {i \in EvIdx : events[i].op = "notice" /\ events[i].n.RootPath = r}

\* C10 as stated: every discovery of a rootPath after its first is skipped
\* without a fetch, and at most one skip notice is logged per rootPath.
C10_Original ==
    /\ \A i, j \in EvIdx :
        (/\ i < j
         /\ events[i].op \in OutcomeOps
         /\ events[j].op \in OutcomeOps
         /\ events[i].n.RootPath = events[j].n.RootPath) => events[j].op # "download"
    /\ \A i \in EvIdx : Cardinality(NoticesOf(events[i].n.RootPath)) <= 1

\* C10 amended: every discovery of a rootPath after it was passed to the
\* Downloader is skipped as downloaded, without a fetch, and at most one skip
\* notice is logged per rootPath, whichever of the two skips it is.
C10_SkipAfterDownload ==
    /\ \A i, j \in EvIdx :
        (/\ i < j
         /\ events[i].op = "download"
         /\ events[j].op \in OutcomeOps
         /\ events[i].n.RootPath = events[j].n.RootPath) => events[j].op = "skipDownloaded"
    /\ \A i \in EvIdx : Cardinality(NoticesOf(events[i].n.RootPath)) <= 1

\* C10 witness: a downloaded rootPath was discovered and skipped twice more,
\* with one notice.
C10_Witness ==
    \E i, j, k \in EvIdx :
        /\ i < j /\ j < k
        /\ events[i].op = "download"
        /\ events[j].op = "skipDownloaded"
        /\ events[k].op = "skipDownloaded"
        /\ events[i].n.RootPath = events[j].n.RootPath
        /\ events[j].n.RootPath = events[k].n.RootPath
        /\ Cardinality(NoticesOf(events[i].n.RootPath)) = 1

ChildrenOf(r) == {i \in EvIdx : events[i].op = "children" /\ events[i].n.RootPath = r}

\* C11: when the Downloader succeeds on a node whose IsGetDeps flag is unset
\* (download-only), its import list is discarded: no child node is created for
\* it, and the node is still counted as succeeded.
C11_DownloadOnlyNoChildren ==
    /\ \A i \in EvIdx : (events[i].op = "ok" /\ ~events[i].n.IsGetDeps) =>
        /\ ChildrenOf(events[i].n.RootPath) = {}
        /\ WalkedToExit =>
            \E j \in EvIdx : /\ j > i
                             /\ events[j].op = "succ"
                             /\ events[j].n = events[i].n
    /\ (pc = "walk" /\ stack # <<>> /\ Top.phase = "imports" /\ ~Top.n.IsGetDeps) =>
            (Top.imports = <<>> /\ Len(stack) = 1)

\* C11 witness: a download-only run fetched a package that has imports and
\* counted it, and ended.
C11_Witness ==
    /\ WalkedToExit
    /\ Bool("download")
    /\ downloadCount >= 1
    /\ \E i \in EvIdx :
        /\ events[i].op = "ok"
        /\ events[i].arg = "fetch"
        /\ ~events[i].n.IsGetDeps
        /\ GetImports(events[i].n) # <<>>

\* Two of the flags local, gopath and remote are set together.
OptionConflict == Cardinality({f \in {"local", "gopath", "remote"} : ctx[f]}) >= 2
\* download-only without a positional argument
MissingRequiredArgument == Bool("download") /\ Len(world.args) = 0

\* C12: with an option conflict, or with download-only and no argument, the
\* run aborts before any resolution: no node is resolved, the Downloader is
\* never invoked and the Local Record is not modified.
C12_ConfigErrorsAbort ==
    (OptionConflict \/ MissingRequiredArgument) =>
        /\ pc \in {"runGet", "exit"}
        /\ stack = <<>>
        /\ \A i \in EvIdx : events[i].op = "help"
        /\ downloadCache = {}
        /\ downloadCount = 0 /\ failConut = 0
        /\ installed = prev.installed
        /\ LocalNodes = prev.record
        /\ savedNodes = prev.record
        /\ (pc = "exit" => exitCode # 0)

\* C12 witness: a run with gopath and remote set together has aborted, and so
\* has one with download-only and no argument (the second run of the same).
C12_Witness ==
    /\ pc = "exit"
    /\ run = 2
    /\ \/ Bool("gopath") /\ Bool("remote") /\ ~Bool("local")
       \/ MissingRequiredArgument /\ ~OptionConflict
    /\ \E i \in EvIdx : events[i].op = "help"

FetchedRoots == {events[i].n.RootPath : i \in {k \in EvIdx : events[k].op = "ok"}}
FailedRoots == {events[i].n.RootPath : i \in {k \in EvIdx : events[k].op = "fail"}}

\* C13: at the end of a run, succeeded (downloadCount) is the number of
\* distinct rootPaths for which the Downloader returned a node, failed
\* (failConut) is the number of failed Downloader invocations plus the number
\* of candidates rejected as invalid, and no rootPath is both a success and a
\* fetch failure.
C13_CountersConsistent ==
    WalkedToExit =>
        /\ downloadCount = Cardinality(FetchedRoots)
        /\ failConut = Count("fail") + Count("reject")
        /\ FetchedRoots \cap FailedRoots = {}

\* C13 witness (Scenario A): the project manifest lists a, b (pinned to tag v2)
\* and c on an empty disk; every fetch succeeds: succeeded = 3, failed = 0.
C13_Witness ==
    /\ WalkedToExit
    /\ world = WorldManifest
    /\ prev.installed = {}
    /\ downloadCount = 3
    /\ failConut = 0
    /\ FetchedRoots = {PkgA, PkgB, PkgC}

\* C14 as stated: a candidate whose importPath is "C" or is not a valid remote
\* path increments failed, never reaches the Downloader, and the walk goes on
\* with the next candidate.
C14_Original ==
    [][(AtCandidate /\ ~Valid(Cur)) =>
          /\ failConut' = failConut + 1
          /\ downloadCache' = downloadCache
          /\ stack' = Continue]_vars

\* C14: a candidate whose importPath is not a valid remote path increments
\* failed by one; a candidate whose importPath is "C" leaves failed unchanged;
\* neither reaches the Downloader (visited set, install directories and
\* succeeded are unchanged) and the walk goes on with the next candidate.
C14_RejectedCandidates ==
    [][(AtCandidate /\ ~Valid(Cur)) =>
          /\ failConut' = IF Cur.ImportPath = PseudoC THEN failConut ELSE failConut + 1
          /\ downloadCache' = downloadCache
          /\ installed' = installed
          /\ downloadCount' = downloadCount
          /\ LocalNodes' = LocalNodes
          /\ stack' = Continue]_vars

\* C14 witness: a "C" import was skipped, an invalid import was rejected, and
\* a later candidate of the same walk was fetched.
C14_Witness ==
    \E i, j, k \in EvIdx :
        /\ events[i].op = "skipC"
        /\ events[j].op = "reject"
        /\ i < k /\ j < k
        /\ events[k].op = "ok"
        /\ failConut = Count("reject") + Count("fail")

\* The candidate of event i is fixed and was installed when the run started.
FixedAndExists(i) == IsFixed(events[i].n) /\ InstallPath(events[i].n) \in prev.installed

\* C15 as stated: for a fixed node that already exists, no fresh fetch and no
\* VCS update is performed, and its imports are resolved as children.
C15_Original ==
    \A i \in EvIdx :
        (events[i].op \in {"skipInstalled", "download"} /\ FixedAndExists(i)) =>
            /\ events[i].op = "download" => events[i].arg = "depsOnly"
            /\ (WalkedToExit /\ events[i].n.IsGetDeps /\ GetImports(events[i].n) # <<>>) =>
                    ChildrenOf(events[i].n.RootPath) # {}

\* C15: only fixed nodes are marked getDepsOnly.  A fixed node that already
\* exists reaches the Downloader only with the update flag; there it is never
\* fetched afresh: it is updated through its VCS when workspace mode is on and
\* the workspace location has VCS metadata, and otherwise its imports are
\* enumerated from the existing checkout, without a network operation, and
\* every one of them is resolved as children.  Without the update flag such a
\* node is skipped as installed and its imports are not enumerated.
C15_FixedExistingTrusted ==
    /\ \A i \in EvIdx :
        /\ events[i].n.IsGetDepsOnly => IsFixed(events[i].n)
        /\ (events[i].op = "download" /\ (events[i].n.IsGetDepsOnly \/ FixedAndExists(i))) =>
            /\ Bool("update")
            /\ events[i].n.IsGetDepsOnly
            /\ events[i].arg = IF UseVcs(events[i].n) THEN "vcs" ELSE "depsOnly"
        /\ (events[i].op = "ok" /\ events[i].arg = "depsOnly") =>
            /\ InstallPath(events[i].n) \in installed
            /\ WalkedToExit =>
                Cardinality(ChildrenOf(events[i].n.RootPath))
                    = Len(ReturnedImports(events[i].n))
        /\ (events[i].op = "skipInstalled" /\ ~Fetched(events[i].n.RootPath)) =>
                ChildrenOf(events[i].n.RootPath) = {}
    /\ \A i \in EvIdx : events[i].op = "download" /\ events[i].arg = "depsOnly" =>
            /\ i < Len(events)
            /\ events[i + 1].op = "ok"

\* C15 witness: with the update flag, b pinned to tag v2 was already installed;
\* its imports were enumerated without a fetch and its import c was resolved.
C15_Witness ==
    /\ WalkedToExit
    /\ \E i \in EvIdx :
        /\ events[i].op = "ok"
        /\ events[i].arg = "depsOnly"
        /\ FixedAndExists(i)
        /\ GetImports(events[i].n) # <<>>
        /\ ChildrenOf(events[i].n.RootPath) # {}
        /\ \E j \in EvIdx : j > i /\ events[j].op \in OutcomeOps
                                  /\ events[j].n.RootPath = PkgC

\* The Downloader invocation for the parent of every child list has completed,
\* and every frame below the top is a parent waiting, inside its loop over the
\* imports, for the subtree of the child it entered last.
ParentBeforeChildren ==
    /\ \A j \in EvIdx : events[j].op \in {"children", "gopmfile"} =>
        \E i \in EvIdx :
            /\ i < j
            /\ events[i].op = "ok"
            /\ events[i].n.RootPath = events[j].n.RootPath
            /\ events[i - 1].op = "download"
            /\ \A k \in EvIdx : (events[k].op = "download"
                                  /\ events[k].n.RootPath = events[j].n.RootPath) => k < i
    /\ \A d \in 1..(Len(stack) - 1) :
        /\ stack[d].phase = "imports"
        /\ stack[d].nod
        /\ stack[d].n.RootPath \in downloadCache
        /\ stack[d].j > 1
        /\ stack[d].j <= Len(stack[d].imports) + 1
        /\ \A m \in 1..Len(stack[d + 1].nodes) :
                stack[d + 1].nodes[m].ImportPath = stack[d].imports[stack[d].j - 1]

\* While the subtree of a child is being resolved, no frame below the top
\* moves: the next sibling of the child is not started, and a child list is
\* entered only from the top frame, one import name at a time.
SubtreeBeforeSibling ==
    /\ \A d \in 1..(Len(stack) - 1) : Len(stack') >= d /\ stack'[d] = stack[d]
    /\ Len(stack') <= Len(stack) + 1
    /\ (stack # <<>> /\ Len(stack') = Len(stack) + 1) =>
            /\ Top.phase = "imports"
            /\ stack'[Len(stack)] = [Top EXCEPT !.j = @ + 1]
            /\ stack'[Len(stack')].i = 1

\* C16: the traversal is depth-first, parent before children: the Downloader
\* invocation for a node completes before any of its children is created and
\* before its manifest is read, and the whole subtree of one child is resolved
\* before the next sibling is started.
C16_DepthFirst == []ParentBeforeChildren /\ [][SubtreeBeforeSibling]_vars

\* C16 witness: the walk is two levels below the initial candidates, at the
\* second candidate of a grandchild list, the first one being done.
C16_Witness ==
    /\ pc = "walk"
    /\ Len(stack) = 3
    /\ Top.i = 2
    /\ Top.phase = "check"
    /\ stack[1].nod /\ stack[2].nod

\* The workspace copy made by the success path right after the "succ" event i.
CopyFollows(i) ==
    LET k == IF i < Len(events) /\ events[i + 1] = Ev("setRecord", events[i].n, events[i].n.Revision)
             THEN i + 2 ELSE i + 1
    IN  /\ k <= Len(events)
        /\ events[k].op = "copy"
        /\ events[k].n = events[i].n

\* The node of event i came out of a fresh fetch.
FreshlyFetched(i) ==
    \E k \in EvIdx : /\ k < i
                     /\ events[k].op = "ok"
                     /\ events[k].arg = "fetch"
                     /\ events[k].n = events[i].n

\* C17: after a successful fetch of an unpinned node its resolved revision is
\* written to the Local Record under its rootPath (and saved with it); no
\* revision is ever written for a pinned node; the workspace copy of the
\* success path is made exactly when workspace mode is requested and the
\* workspace location has no VCS metadata.
C17_RecordAndCopyOnSuccess ==
    /\ \A i \in EvIdx : events[i].op = "succ" =>
        LET nod == events[i].n IN
        /\ (IsEmptyVal(nod) /\ FreshlyFetched(i)) =>
            /\ nod.Revision # ""
            /\ i < Len(events)
            /\ events[i + 1] = Ev("setRecord", nod, nod.Revision)
            /\ pc = "walk" => RecordValue(LocalNodes, nod.RootPath) = nod.Revision
            /\ WalkedToExit => RecordValue(savedNodes, nod.RootPath) = nod.Revision
        /\ ~IsEmptyVal(nod) =>
            /\ ~(i < Len(events) /\ events[i + 1].op = "setRecord" /\ events[i + 1].n = nod)
            /\ RecordValue(LocalNodes, nod.RootPath)
                    \in {RecordValue(prev.record, nod.RootPath), ""}
        /\ CopyFollows(i) <=> (Workspace /\ nod.RootPath \notin gopathVcs)
        /\ CopyFollows(i) => InstallGopath(nod) \in gopathPkgs
    /\ \A k \in EvIdx : (events[k].op = "setRecord" /\ events[k].arg # "") =>
            IsEmptyVal(events[k].n)

\* C17 witness: in workspace mode an unpinned node whose workspace location is
\* under VCS was fetched, its revision recorded and saved, and no copy made,
\* and a pinned node was fetched in the same run.
C17_Witness ==
    /\ WalkedToExit
    /\ Workspace
    /\ \E i, j \in EvIdx :
        /\ events[i].op = "succ" /\ IsEmptyVal(events[i].n) /\ FreshlyFetched(i)
        /\ events[i].n.RootPath \in gopathVcs
        /\ ~CopyFollows(i)
        /\ RecordValue(savedNodes, events[i].n.RootPath) = events[i].n.Revision
        /\ events[j].op = "succ" /\ ~IsEmptyVal(events[j].n) /\ FreshlyFetched(j)
        /\ CopyFollows(j)

IsInvalidPath(p) == p # PseudoC /\ ~IsValidRemotePath(p)
\* the invalid import paths among the imports the Downloader returned for n
InvalidImports(n) ==
    Cardinality({k \in 1..Len(ReturnedImports(n)) : IsInvalidPath(ReturnedImports(n)[k])})

RECURSIVE InvalidImportsUpTo(_)
\* the invalid import paths among the imports of the parents fetched up to event k
InvalidImportsUpTo(k) ==
    IF k = 0 THEN 0
    ELSE InvalidImportsUpTo(k - 1) +
         (IF events[k].op = "ok" THEN InvalidImports(events[k].n) ELSE 0)

\* C18: for a fetched parent the walk processes exactly one child candidate per
\* import name, so at the end of a run the rejections equal the invalid paths
\* among the initial candidates plus one per invalid import of each fetched
\* parent.
C18_OneCandidatePerImport ==
    /\ \A d \in 2..Len(stack) : Len(stack[d].nodes) = 1
    /\ WalkedToExit =>
        Count("reject") =
            Cardinality({n \in InitialNodes : IsInvalidPath(n.ImportPath)})
                + InvalidImportsUpTo(Len(events))

\* C19: a failed fetch of a node leaves the Local Record entry of its rootPath
\* unchanged: the value in memory after the failure, and the value saved at
\* the end of the run, equal the value recorded before the node was processed.
C19_FailedFetchKeepsRecord ==
    \A i \in EvIdx : events[i].op = "fail" =>
        LET r == events[i].n.RootPath IN
        /\ RecordValue(LocalNodes, r) = RecordValue(prev.record, r)
        /\ WalkedToExit => RecordValue(savedNodes, r) = RecordValue(prev.record, r)

\* A rootPath is in the visited set from the start of its fetch on, the frames
\* of the recursion below the top belong to distinct visited rootPaths, and
\* the number of nested recursive calls is at most the number of distinct
\* rootPaths of the import graph.
DepthBound ==
    /\ \A i \in EvIdx : events[i].op = "download" => events[i].n.RootPath \in downloadCache
    /\ downloadCache \subseteq ReachableRoots
    /\ \A d \in 1..(Len(stack) - 1) :
        /\ stack[d].n.RootPath \in downloadCache
        /\ \A e \in 1..(Len(stack) - 1) :
                d # e => stack[d].n.RootPath # stack[e].n.RootPath
    /\ Len(stack) - 1 <= Cardinality(downloadCache)
    /\ Len(stack) - 1 <= Cardinality(ReachableRoots)

\* C20: every run terminates, on every import graph (cycles and self-imports
\* included), with and without the update flag, and the recursion depth never
\* exceeds the number of distinct rootPaths.
C20_Terminates == []DepthBound /\ ((pc # "exit") ~> (pc = "exit"))

\* C20 witness: with the update flag, on the graph where a imports b and b
\* imports a and itself, the walk met a and b again below b, skipped them as
\* visited, and the run ended.
C20_Witness ==
    /\ WalkedToExit
    /\ world = WorldCycle
    /\ Bool("update")
    /\ downloadCache = {PkgA, PkgB}
    /\ \E i, j \in EvIdx :
        /\ events[i].op = "skipDownloaded" /\ events[i].n.RootPath = PkgA
        /\ events[j].op = "skipDownloaded" /\ events[j].n.RootPath = PkgB
====
